---- MODULE Spec2Model ----
(***************************************************************************)
(* Valence-maintenance engine of the molecule editor (hydrogenManager):    *)
(* bond accounting, hydrogen resolver, hydrogen placement, the valence     *)
(* reconciler and the bond-feasibility check, over immutable molecule      *)
(* snapshots.  A molecule is [atoms, bonds], both sequences, as in the     *)
(* source (arrays).  uuidv4() is a counter: every call returns the next    *)
(* unused natural number.                                                  *)
(*                                                                         *)
(* Positions.  A position is [x, y, offs]: the grid point (x, y) displaced *)
(* by one step of length hydrogenDistance for every angle (in degrees) of  *)
(* offs.  Atoms drawn by the user sit on grid points (offs = << >>); a     *)
(* hydrogen synthesised around a parent has the parent's position with one *)
(* more angle appended.  Angles are whole degrees: the simple placement    *)
(* steps by 360 / max(n, 3), whole for every count the valence table asks  *)
(* for, and the collision-aware scan steps by 30 (pi / 6).                 *)
(*                                                                         *)
(* The naming client (NamingCache) is modelled by its own actions and      *)
(* specification, SpecNaming, at the end of the module.                    *)
(***************************************************************************)
EXTENDS Integers, Sequences, FiniteSets, TLC

\* ---------------------------------------------------------------- bounds
MaxAtoms == 2      \* atoms the user draws
MaxBonds == 1      \* bonds the user draws before any hydrogen is attached
MaxSteps == 2      \* edits and engine calls once the drawing is hydrated
MaxCount == 2      \* largest explicit count passed to addSpecificHydrogens
MaxTime == 2       \* Date.now() runs from 0 to MaxTime
MaxRequests == 2   \* network requests pending at one time

\* NamingCache's sizes, scaled to the model's clock and key set: the source
\* has MAX_CACHE_SIZE = 1000 entries and CACHE_DURATION = 24 hours, and
\* takes REQUEST_TIMEOUT from the API configuration
MAX_CACHE_SIZE == 2
CACHE_DURATION == 1
REQUEST_TIMEOUT == 1

\* ------------------------------------------------------- program constants
\* the length of one step of a position's offs
hydrogenDistance == 30

Elements == {"C", "N", "S", "H"}
BondTypes == {"single", "double", "triple", "wedge", "dash"}

\* what the user picks from in the toolbar
Palette == {"C", "S", "H"}
BondPalette == {"single", "double", "triple"}

\* BOND_ORDER of valenceDefinitions (imported, not among the sources)
BOND_ORDER(type) ==
    CASE type = "single" -> 1
      [] type = "double" -> 2
      [] type = "triple" -> 3
      [] type = "wedge" -> 1
      [] type = "dash" -> 1

\* The valence table: element -> ordered canonical valences; hydrogen has
\* no implicit-hydrogen policy (no entry).
ValenceTable(element) ==
    CASE element = "C" -> <<4>>
      [] element = "N" -> <<3>>
      [] element = "S" -> <<2, 4, 6>>
      [] OTHER -> << >>

SeqRange(s) == {s[i] : i \in 1..Len(s)}

MaxOf(S) == CHOOSE v \in S : \A w \in S : w <= v

MinOf(S) == CHOOSE v \in S : \A w \in S : v <= w

\* the smallest canonical valence >= current, else the largest; 0 (falsy)
\* when the element has no entry
getBestValenceForBondCount(element, currentBonds) ==
    LET vs == SeqRange(ValenceTable(element))
        ge == {v \in vs : v >= currentBonds}
    IN  IF vs = {} THEN 0
        ELSE IF ge # {} THEN MinOf(ge) ELSE MaxOf(vs)

getMaxValence(element) ==
    LET vs == SeqRange(ValenceTable(element))
    IN  IF vs = {} THEN 0 ELSE MaxOf(vs)

canAcceptMoreBonds(element, currentBonds, additionalBonds) ==
    currentBonds + additionalBonds <= getMaxValence(element)

\* ------------------------------------------------------------ array helpers
RECURSIVE SumSeq(_)
SumSeq(s) == IF s = << >> THEN 0 ELSE Head(s) + SumSeq(Tail(s))

\* Array.prototype.find: the first element satisfying Test, NoAtom if none
NoAtom == [id |-> -1, element |-> "none", position |-> [x |-> 0, y |-> 0, offs |-> << >>]]

FindAtom(atoms, atomId) ==
    LET hits == SelectSeq(atoms, LAMBDA a : a.id = atomId)
    IN  IF hits = << >> THEN NoAtom ELSE Head(hits)

HasAtom(atoms, atomId) == \E i \in 1..Len(atoms) : atoms[i].id = atomId

\* ------------------------------------------------------------ bond accounting
getAtomBondCount(atomId, bonds) ==
    SumSeq([i \in 1..Len(bonds) |->
        IF bonds[i].sourceAtomId = atomId \/ bonds[i].targetAtomId = atomId
        THEN BOND_ORDER(bonds[i].type) ELSE 0])

\* a slip: the bonds the atom already has are not subtracted
getRequiredHydrogens_NoSubtract(atom, bonds) ==
    getBestValenceForBondCount(atom.element, getAtomBondCount(atom.id, bonds))

\* a slip: the difference is returned without the clamp at 0
getRequiredHydrogens_NoClamp(atom, bonds) ==
    LET currentBonds == getAtomBondCount(atom.id, bonds)
        targetValence == getBestValenceForBondCount(atom.element, currentBonds)
    IN  IF targetValence = 0 THEN 0 ELSE targetValence - currentBonds

getRequiredHydrogens(atom, bonds) ==
    LET currentBonds == getAtomBondCount(atom.id, bonds)
        targetValence == getBestValenceForBondCount(atom.element, currentBonds)
    IN  IF targetValence = 0 THEN 0
        ELSE IF targetValence - currentBonds > 0 THEN targetValence - currentBonds ELSE 0

\* ------------------------------------------------------------ hydrogen resolver
\* a slip: every bonded atom is taken for a hydrogen
getConnectedHydrogens_AnyElement(atomId, molecule) ==
    LET connected == {IF b.sourceAtomId = atomId THEN b.targetAtomId ELSE b.sourceAtomId :
                        b \in {c \in SeqRange(molecule.bonds) :
                                 c.sourceAtomId = atomId \/ c.targetAtomId = atomId}}
    IN  SelectSeq(molecule.atoms, LAMBDA a : a.id \in connected)

getConnectedHydrogens(atomId, molecule) ==
    LET connected == {IF b.sourceAtomId = atomId THEN b.targetAtomId ELSE b.sourceAtomId :
                        b \in {c \in SeqRange(molecule.bonds) :
                                 c.sourceAtomId = atomId \/ c.targetAtomId = atomId}}
        hydrogenIds == {h \in connected : HasAtom(molecule.atoms, h)
                                           /\ FindAtom(molecule.atoms, h).element = "H"}
    IN  SelectSeq(molecule.atoms, LAMBDA a : a.id \in hydrogenIds)

\* ------------------------------------------------------------ placement
Molecule(atoms, bonds) == [atoms |-> atoms, bonds |-> bonds]

\* what an engine call returns: the molecule and the id generator's next id
Result(molecule, uid) == [molecule |-> molecule, uid |-> uid]

Max(a, b) == IF a >= b THEN a ELSE b

Min(a, b) == IF a <= b THEN a ELSE b

OffsetPosition(position, angle) ==
    [x |-> position.x, y |-> position.y, offs |-> Append(position.offs, angle)]

HydrogenAtom(id, parent, angle) ==
    [id |-> id, element |-> "H", position |-> OffsetPosition(parent.position, angle)]

HydrogenBond(id, parentId, hydrogenId) ==
    [id |-> id, sourceAtomId |-> parentId, targetAtomId |-> hydrogenId, type |-> "single"]

\* angleStep = 2*pi / max(n, 3); in degrees.  The i-th hydrogen takes ids
\* uid + 2i (atom) and uid + 2i + 1 (bond), the order of the uuidv4() calls.
\* a slip: the new atoms and bonds are put in front of the old ones
addSpecificHydrogens_Prepend(atom, molecule, numberOfHydrogens, uid) ==
    IF numberOfHydrogens <= 0 THEN Result(molecule, uid)
    ELSE
      LET angleStep == 360 \div Max(numberOfHydrogens, 3)
          newAtoms == [i \in 1..numberOfHydrogens |->
                         HydrogenAtom(uid + 2 * (i - 1), atom, (i - 1) * angleStep)]
          newBonds == [i \in 1..numberOfHydrogens |->
                         HydrogenBond(uid + 2 * (i - 1) + 1, atom.id, uid + 2 * (i - 1))]
      IN  Result(Molecule(newAtoms \o molecule.atoms, newBonds \o molecule.bonds),
                 uid + 2 * numberOfHydrogens)

\* a slip: the circle is divided by the count, without the minimum of 3
addSpecificHydrogens_NoMinimum(atom, molecule, numberOfHydrogens, uid) ==
    IF numberOfHydrogens <= 0 THEN Result(molecule, uid)
    ELSE
      LET angleStep == 360 \div numberOfHydrogens
          newAtoms == [i \in 1..numberOfHydrogens |->
                         HydrogenAtom(uid + 2 * (i - 1), atom, (i - 1) * angleStep)]
          newBonds == [i \in 1..numberOfHydrogens |->
                         HydrogenBond(uid + 2 * (i - 1) + 1, atom.id, uid + 2 * (i - 1))]
      IN  Result(Molecule(molecule.atoms \o newAtoms, molecule.bonds \o newBonds),
                 uid + 2 * numberOfHydrogens)

addSpecificHydrogens(atom, molecule, numberOfHydrogens, uid) ==
    IF numberOfHydrogens <= 0 THEN Result(molecule, uid)
    ELSE
      LET angleStep == 360 \div Max(numberOfHydrogens, 3)
          newAtoms == [i \in 1..numberOfHydrogens |->
                         HydrogenAtom(uid + 2 * (i - 1), atom, (i - 1) * angleStep)]
          newBonds == [i \in 1..numberOfHydrogens |->
                         HydrogenBond(uid + 2 * (i - 1) + 1, atom.id, uid + 2 * (i - 1))]
      IN  Result(Molecule(molecule.atoms \o newAtoms, molecule.bonds \o newBonds),
                 uid + 2 * numberOfHydrogens)

addHydrogensToAtom(atom, molecule, uid) ==
    addSpecificHydrogens(atom, molecule, getRequiredHydrogens(atom, molecule.bonds), uid)

\* ------------------------------------------------------------ bond formed
\* a slip: the hydrogen atoms go, their bonds stay
RemoveHydrogens_KeepBonds(molecule, ids) ==
    Molecule(SelectSeq(molecule.atoms, LAMBDA a : a.id \notin ids), molecule.bonds)

RemoveHydrogens(molecule, ids) ==
    Molecule(SelectSeq(molecule.atoms, LAMBDA a : a.id \notin ids),
             SelectSeq(molecule.bonds,
                       LAMBDA b : b.sourceAtomId \notin ids /\ b.targetAtomId \notin ids))

\* a slip: the hydrogens are taken from the end of the resolver's list
HydrogensToRemoveIds_LastFirst(atom, molecule) ==
    LET connectedHydrogens == getConnectedHydrogens(atom.id, molecule)
        currentBonds == getAtomBondCount(atom.id, molecule.bonds)
        targetValence == getBestValenceForBondCount(atom.element, currentBonds)
        hydrogensToRemove == Min(Max(0, currentBonds - targetValence), Len(connectedHydrogens))
        n == Len(connectedHydrogens)
    IN  IF targetValence = 0 THEN {}
        ELSE {connectedHydrogens[i].id : i \in (n - hydrogensToRemove + 1)..n}

\* connectedHydrogens.slice(0, hydrogensToRemove).map(h => h.id); empty on
\* the two early returns
HydrogensToRemoveIds(atom, molecule) ==
    LET connectedHydrogens == getConnectedHydrogens(atom.id, molecule)
        currentBonds == getAtomBondCount(atom.id, molecule.bonds)
        targetValence == getBestValenceForBondCount(atom.element, currentBonds)
        excessHydrogens == Max(0, currentBonds - targetValence)
        hydrogensToRemove == Min(excessHydrogens, Len(connectedHydrogens))
    IN  IF targetValence = 0 THEN {}
        ELSE IF hydrogensToRemove <= 0 THEN {}
        ELSE {connectedHydrogens[i].id : i \in 1..hydrogensToRemove}

\* a slip: an unknown atom id empties the molecule
updateHydrogensAfterBonding_UnknownEmpties(atomId, molecule) ==
    IF ~HasAtom(molecule.atoms, atomId) THEN Molecule(<< >>, << >>)
    ELSE LET ids == HydrogensToRemoveIds(FindAtom(molecule.atoms, atomId), molecule)
         IN  IF ids = {} THEN molecule ELSE RemoveHydrogens(molecule, ids)

updateHydrogensAfterBonding(atomId, molecule) ==
    IF ~HasAtom(molecule.atoms, atomId) THEN molecule
    ELSE LET ids == HydrogensToRemoveIds(FindAtom(molecule.atoms, atomId), molecule)
         IN  IF ids = {} THEN molecule ELSE RemoveHydrogens(molecule, ids)

updateMoleculeAfterBonding(sourceAtomId, targetAtomId, molecule) ==
    updateHydrogensAfterBonding(targetAtomId,
        updateHydrogensAfterBonding(sourceAtomId, molecule))

\* ------------------------------------------------------------ feasibility
\* a slip: only the source atom's capacity is checked
canBondAtoms_SourceOnly(sourceAtomId, targetAtomId, molecule, bondOrder) ==
    IF ~HasAtom(molecule.atoms, sourceAtomId) \/ ~HasAtom(molecule.atoms, targetAtomId)
    THEN FALSE
    ELSE canAcceptMoreBonds(FindAtom(molecule.atoms, sourceAtomId).element,
                            getAtomBondCount(sourceAtomId, molecule.bonds), bondOrder)

\* a slip: only the target atom's capacity is checked
canBondAtoms_TargetOnly(sourceAtomId, targetAtomId, molecule, bondOrder) ==
    IF ~HasAtom(molecule.atoms, sourceAtomId) \/ ~HasAtom(molecule.atoms, targetAtomId)
    THEN FALSE
    ELSE canAcceptMoreBonds(FindAtom(molecule.atoms, targetAtomId).element,
                            getAtomBondCount(targetAtomId, molecule.bonds), bondOrder)

canBondAtoms(sourceAtomId, targetAtomId, molecule, bondOrder) ==
    IF ~HasAtom(molecule.atoms, sourceAtomId) \/ ~HasAtom(molecule.atoms, targetAtomId)
    THEN FALSE
    ELSE
      LET sourceAtom == FindAtom(molecule.atoms, sourceAtomId)
          targetAtom == FindAtom(molecule.atoms, targetAtomId)
          sourceCurrentBonds == getAtomBondCount(sourceAtomId, molecule.bonds)
          targetCurrentBonds == getAtomBondCount(targetAtomId, molecule.bonds)
      IN  canAcceptMoreBonds(sourceAtom.element, sourceCurrentBonds, bondOrder)
          /\ canAcceptMoreBonds(targetAtom.element, targetCurrentBonds, bondOrder)

\* ------------------------------------------------------------ bond removed
\* Math.atan2 in degrees, in (-180, 180], of the vector from one position to
\* another.  Exact for a hydrogen synthesised around the atom (its own
\* angle) and for two grid points one grid step apart along an axis or a
\* diagonal; any other pair is read by its grid points.
GridAtan2(dx, dy) ==
    CASE dx > 0 /\ dy = 0 -> 0
      [] dx > 0 /\ dy > 0 -> 45
      [] dx = 0 /\ dy > 0 -> 90
      [] dx < 0 /\ dy > 0 -> 135
      [] dx < 0 /\ dy = 0 -> 180
      [] dx < 0 /\ dy < 0 -> -135
      [] dx = 0 /\ dy < 0 -> -90
      [] dx > 0 /\ dy < 0 -> -45
      [] OTHER -> 0

Atan2Deg(from, to) ==
    IF to.x = from.x /\ to.y = from.y /\ Len(to.offs) = Len(from.offs) + 1
       /\ SubSeq(to.offs, 1, Len(from.offs)) = from.offs
    THEN LET a == to.offs[Len(to.offs)] IN IF a > 180 THEN a - 360 ELSE a
    ELSE GridAtan2(to.x - from.x, to.y - from.y)

Abs(n) == IF n < 0 THEN -n ELSE n

\* min over the obstacles of the circular distance to testAngle, from 2*pi
MinDistance(testAngle, angles) ==
    MinOf({360} \cup {Min(Abs(testAngle - angles[j]), 360 - Abs(testAngle - angles[j])) :
                        j \in 1..Len(angles)})

\* the scan  for (testAngle = 0; testAngle < 2*pi; testAngle += pi/6)  with
\* bestAngle = 0, maxDistance = 0 and a strict comparison
RECURSIVE ScanAngles(_, _, _, _)
ScanAngles(testAngle, angles, bestAngle, maxDistance) ==
    IF testAngle >= 360 THEN bestAngle
    ELSE LET minDistance == MinDistance(testAngle, angles)
         IN  IF minDistance > maxDistance
             THEN ScanAngles(testAngle + 30, angles, testAngle, minDistance)
             ELSE ScanAngles(testAngle + 30, angles, bestAngle, maxDistance)

BestAngle(existingPositions, existingAtomAngles) ==
    ScanAngles(0, existingPositions \o existingAtomAngles, 0, 0)

\* a slip: a placed hydrogen is not pushed to existingPositions
RECURSIVE PlaceAngles_NoPush(_, _, _)
PlaceAngles_NoPush(hydrogensToAdd, existingPositions, existingAtomAngles) ==
    IF hydrogensToAdd <= 0 THEN << >>
    ELSE <<BestAngle(existingPositions, existingAtomAngles)>>
         \o PlaceAngles_NoPush(hydrogensToAdd - 1, existingPositions, existingAtomAngles)

\* the loop  for (i = 0; i < hydrogensToAdd; i++): the angles of the new
\* hydrogens, each pushed to existingPositions for the next iteration
RECURSIVE PlaceAngles(_, _, _)
PlaceAngles(hydrogensToAdd, existingPositions, existingAtomAngles) ==
    IF hydrogensToAdd <= 0 THEN << >>
    ELSE LET finalAngle == BestAngle(existingPositions, existingAtomAngles)
         IN  <<finalAngle>> \o PlaceAngles(hydrogensToAdd - 1,
                                           Append(existingPositions, finalAngle),
                                           existingAtomAngles)

HydrogensToAdd(neededHydrogens, currentCount) == neededHydrogens - currentCount

updateHydrogensAfterBondRemoval(atomId, molecule, uid) ==
    IF ~HasAtom(molecule.atoms, atomId) \/ FindAtom(molecule.atoms, atomId).element = "H"
    THEN Result(molecule, uid)
    ELSE
      LET atom == FindAtom(molecule.atoms, atomId)
          neededHydrogens == getRequiredHydrogens(atom, molecule.bonds)
          currentHydrogens == getConnectedHydrogens(atomId, molecule)
          hydrogensToAdd == HydrogensToAdd(neededHydrogens, Len(currentHydrogens))
          existingPositions ==
              [i \in 1..Len(currentHydrogens) |->
                  Atan2Deg(atom.position, currentHydrogens[i].position)]
          touching == SelectSeq(molecule.bonds,
              LAMBDA b : b.sourceAtomId = atomId \/ b.targetAtomId = atomId)
          otherIds == [i \in 1..Len(touching) |->
              IF touching[i].sourceAtomId = atomId
              THEN touching[i].targetAtomId ELSE touching[i].sourceAtomId]
          bondedAtoms == SelectSeq([i \in 1..Len(otherIds) |-> FindAtom(molecule.atoms, otherIds[i])],
              LAMBDA a : a # NoAtom /\ a.element # "H")
          existingAtomAngles ==
              [i \in 1..Len(bondedAtoms) |-> Atan2Deg(atom.position, bondedAtoms[i].position)]
          angles == PlaceAngles(hydrogensToAdd, existingPositions, existingAtomAngles)
          newAtoms == [i \in 1..hydrogensToAdd |->
                         HydrogenAtom(uid + 2 * (i - 1), atom, angles[i])]
          newBonds == [i \in 1..hydrogensToAdd |->
                         HydrogenBond(uid + 2 * (i - 1) + 1, atom.id, uid + 2 * (i - 1))]
      IN  IF neededHydrogens > Len(currentHydrogens)
          THEN Result(Molecule(molecule.atoms \o newAtoms, molecule.bonds \o newBonds),
                      uid + 2 * hydrogensToAdd)
          ELSE Result(molecule, uid)

\* ------------------------------------------------------------ bond type changed
\* one iteration of  for (const atomId of [sourceAtomId, targetAtomId])
\* a slip: the hydrogens are recomputed without stripping the old ones
TypeChangeStep_NoStrip(atomId, r) ==
    IF ~HasAtom(r.molecule.atoms, atomId) \/ FindAtom(r.molecule.atoms, atomId).element = "H"
    THEN r
    ELSE addHydrogensToAtom(FindAtom(r.molecule.atoms, atomId), r.molecule, r.uid)

\* a slip: the needed hydrogens are counted before the old ones are stripped
TypeChangeStep_CountFirst(atomId, r) ==
    IF ~HasAtom(r.molecule.atoms, atomId) \/ FindAtom(r.molecule.atoms, atomId).element = "H"
    THEN r
    ELSE
      LET atom == FindAtom(r.molecule.atoms, atomId)
          existingHydrogens == getConnectedHydrogens(atomId, r.molecule)
          hydrogenIds == {existingHydrogens[i].id : i \in 1..Len(existingHydrogens)}
      IN  addSpecificHydrogens(atom, RemoveHydrogens(r.molecule, hydrogenIds),
                               getRequiredHydrogens(atom, r.molecule.bonds), r.uid)

TypeChangeStep(atomId, r) ==
    IF ~HasAtom(r.molecule.atoms, atomId) \/ FindAtom(r.molecule.atoms, atomId).element = "H"
    THEN r
    ELSE
      LET atom == FindAtom(r.molecule.atoms, atomId)
          existingHydrogens == getConnectedHydrogens(atomId, r.molecule)
          hydrogenIds == {existingHydrogens[i].id : i \in 1..Len(existingHydrogens)}
          stripped == RemoveHydrogens(r.molecule, hydrogenIds)
          neededHydrogens == getRequiredHydrogens(atom, stripped.bonds)
      IN  IF neededHydrogens > 0
          THEN addHydrogensToAtom(atom, stripped, r.uid)
          ELSE Result(stripped, r.uid)

updateHydrogensAfterBondTypeChange(sourceAtomId, targetAtomId, molecule, uid) ==
    TypeChangeStep(targetAtomId, TypeChangeStep(sourceAtomId, Result(molecule, uid)))

\* ------------------------------------------------------------ state
\* An editing session: the user draws atoms, then bonds, then the atoms get
\* their hydrogens in drawing order (stage 1), then edits and reconciler
\* calls follow in any order (stage 2, MaxSteps of them).
VARIABLES
    mol,     \* the caller's current molecule snapshot
    uid,     \* the id generator: the next id uuidv4() returns
    last,    \* the last call: its name, arguments, input and verdict
    script,  \* [stage, k]: stage 1: k is the next atom to hydrate; stage 2: steps taken
    cache,         \* NamingCache.cache: the Map's entries in insertion order
    requestQueue,  \* NamingCache.requestQueue: the Map's entries in insertion order
    requests,      \* the network requests that have not settled yet
    now            \* Date.now()

editorVars == <<mol, uid, script>>

namingVars == <<cache, requestQueue, requests, now>>

vars == <<mol, uid, last, script, cache, requestQueue, requests, now>>

EmptyMolecule == Molecule(<< >>, << >>)

NoCall == [op |-> "user", s |-> 0, t |-> 0, k |-> 0, pre |-> EmptyMolecule,
           res |-> FALSE, rep |-> FALSE]

\* rep: the call before this one was the same call, and this call's input
\* is what that call returned
Call(op, s, t, k, res) ==
    [op |-> op, s |-> s, t |-> t, k |-> k, pre |-> mol, res |-> res,
     rep |-> last.op = op /\ last.s = s /\ last.t = t /\ last.k = k]

IsDrawn(atom) == atom.position.offs = << >>

DrawnIds(molecule) ==
    {molecule.atoms[i].id : i \in {j \in 1..Len(molecule.atoms) : IsDrawn(molecule.atoms[j])}}

DrawnIndex(molecule) == {i \in 1..Len(molecule.atoms) : IsDrawn(molecule.atoms[i])}

\* the bonds the user drew: those between drawn atoms
DrawnBondIndex(molecule) ==
    {i \in 1..Len(molecule.bonds) :
        /\ molecule.bonds[i].sourceAtomId \in DrawnIds(molecule)
        /\ molecule.bonds[i].targetAtomId \in DrawnIds(molecule)}

\* the grid point the user's n-th atom is drawn at
Layout(n) == <<[x |-> 0, y |-> 0], [x |-> 1, y |-> 1], [x |-> 1, y |-> 0],
               [x |-> 0, y |-> 1]>>[((n - 1) % 4) + 1]

\* atom ids a caller passes: those of the drawn atoms, those drawn atoms of
\* the previous snapshot (stale ones) and one that never existed
ArgIds == {0} \cup DrawnIds(mol) \cup DrawnIds(last.pre)

Init ==
    /\ mol = EmptyMolecule
    /\ uid = 1
    /\ last = NoCall
    /\ script = [stage |-> 0, k |-> 0]
    /\ cache = << >>
    /\ requestQueue = << >>
    /\ requests = {}
    /\ now = 0

\* one more step of stage 2
Step ==
    IF script.stage = 2
    THEN script.k < MaxSteps /\ script' = [stage |-> 2, k |-> script.k + 1]
    ELSE Len(mol.atoms) > 0 /\ MaxSteps > 0 /\ script' = [stage |-> 2, k |-> 1]

\* ------------------------------------------------------------ the editor
DrawAtom(element) ==
    /\ script.stage = 0
    /\ mol.bonds = << >>
    /\ Len(mol.atoms) < MaxAtoms
    /\ LET g == Layout(Len(mol.atoms) + 1)
           atom == [id |-> uid, element |-> element,
                    position |-> [x |-> g.x, y |-> g.y, offs |-> << >>]]
       IN  mol' = Molecule(Append(mol.atoms, atom), mol.bonds)
    /\ uid' = uid + 1
    /\ last' = NoCall
    /\ UNCHANGED namingVars
    /\ UNCHANGED script

DrawBond(i, j, type) ==
    /\ IF script.stage = 0
       THEN Len(mol.bonds) < MaxBonds /\ UNCHANGED script
       ELSE Step
    /\ LET bond == [id |-> uid, sourceAtomId |-> mol.atoms[i].id,
                    targetAtomId |-> mol.atoms[j].id, type |-> type]
       IN  mol' = Molecule(mol.atoms, Append(mol.bonds, bond))
    /\ uid' = uid + 1
    /\ last' = NoCall
    /\ UNCHANGED namingVars

SetBondType(i, type) ==
    /\ Step
    /\ mol.bonds[i].type # type
    /\ mol' = Molecule(mol.atoms, [mol.bonds EXCEPT ![i].type = type])
    /\ UNCHANGED uid
    /\ last' = NoCall
    /\ UNCHANGED namingVars

EraseBond(i) ==
    /\ Step
    /\ mol' = Molecule(mol.atoms,
                       SubSeq(mol.bonds, 1, i - 1) \o SubSeq(mol.bonds, i + 1, Len(mol.bonds)))
    /\ UNCHANGED uid
    /\ last' = NoCall
    /\ UNCHANGED namingVars

\* ------------------------------------------------------------ engine calls
Return(r, call) ==
    /\ mol' = r.molecule
    /\ uid' = r.uid
    /\ last' = call
    /\ UNCHANGED namingVars

\* on atom creation; in stage 0 and 1 the atoms are served in drawing order
AddHydrogensToAtom(i) ==
    /\ IF script.stage < 2 /\ i >= script.k
       THEN script' = [stage |-> 1, k |-> i + 1]
       ELSE Step
    /\ Return(addHydrogensToAtom(mol.atoms[i], mol, uid),
              Call("addHydrogensToAtom", mol.atoms[i].id, 0, 0, FALSE))

AddSpecificHydrogens(i, n) ==
    /\ Step
    /\ Return(addSpecificHydrogens(mol.atoms[i], mol, n, uid),
              Call("addSpecificHydrogens", mol.atoms[i].id, 0, n, FALSE))

\* the required-hydrogen count of the i-th atom of the molecule
GetRequiredHydrogens(i) ==
    /\ Step
    /\ Return(Result(mol, uid),
              Call("getRequiredHydrogens", mol.atoms[i].id, 0, 0,
                   getRequiredHydrogens(mol.atoms[i], mol.bonds)))

UpdateHydrogensAfterBonding(s) ==
    /\ Step
    /\ Return(Result(updateHydrogensAfterBonding(s, mol), uid),
              Call("updateHydrogensAfterBonding", s, 0, 0, FALSE))

UpdateMoleculeAfterBonding(s, t) ==
    /\ Step
    /\ Return(Result(updateMoleculeAfterBonding(s, t, mol), uid),
              Call("updateMoleculeAfterBonding", s, t, 0, FALSE))

CanBondAtoms(s, t, k) ==
    /\ Step
    /\ Return(Result(mol, uid),
              Call("canBondAtoms", s, t, k, canBondAtoms(s, t, mol, k)))

UpdateHydrogensAfterBondRemoval(s) ==
    /\ Step
    /\ Return(updateHydrogensAfterBondRemoval(s, mol, uid),
              Call("updateHydrogensAfterBondRemoval", s, 0, 0, FALSE))

UpdateHydrogensAfterBondTypeChange(s, t) ==
    /\ Step
    /\ Return(updateHydrogensAfterBondTypeChange(s, t, mol, uid),
              Call("updateHydrogensAfterBondTypeChange", s, t, 0, FALSE))

Next ==
    \/ \E element \in Palette : DrawAtom(element)
    \/ \E i, j \in DrawnIndex(mol), type \in BondPalette : i < j /\ DrawBond(i, j, type)
    \/ \E i \in DrawnBondIndex(mol), type \in BondPalette : SetBondType(i, type)
    \/ \E i \in DrawnBondIndex(mol) : EraseBond(i)
    \/ \E i \in DrawnIndex(mol) : AddHydrogensToAtom(i)
    \/ \E i \in DrawnIndex(mol), n \in 0..MaxCount : AddSpecificHydrogens(i, n)
    \/ \E i \in DrawnIndex(mol) : GetRequiredHydrogens(i)
    \/ \E s \in ArgIds : UpdateHydrogensAfterBonding(s)
    \/ \E s, t \in ArgIds : UpdateMoleculeAfterBonding(s, t)
    \/ \E s, t \in ArgIds, k \in 1..3 : CanBondAtoms(s, t, k)
    \/ \E s \in ArgIds : UpdateHydrogensAfterBondRemoval(s)
    \/ \E s, t \in ArgIds : UpdateHydrogensAfterBondTypeChange(s, t)

Spec == Init /\ [][Next]_vars

\* Bond accounting on its own: drawings with every bond type, bonds from an
\* atom to itself included, and the count of an atom's bonds.
GetAtomBondCount(s) ==
    /\ UNCHANGED script
    /\ Return(Result(mol, uid),
              Call("getAtomBondCount", s, 0, 0, getAtomBondCount(s, mol.bonds)))

NextAccounting ==
    \/ \E element \in Palette : DrawAtom(element)
    \/ \E i, j \in DrawnIndex(mol), type \in BondTypes : i <= j /\ DrawBond(i, j, type)
    \/ \E s \in ArgIds : GetAtomBondCount(s)

SpecAccounting == Init /\ [][NextAccounting]_vars

\* ------------------------------------------------------------ properties
\* the hydrogens of an atom, as a set of ids: hydrogen atoms joined to it by
\* at least one bond
HydrogensOf(atomId, molecule) ==
    {a.id : a \in {h \in SeqRange(molecule.atoms) :
        /\ h.element = "H"
        /\ \E b \in SeqRange(molecule.bonds) :
              \/ (b.sourceAtomId = atomId /\ b.targetAtomId = h.id)
              \/ (b.targetAtomId = atomId /\ b.sourceAtomId = h.id)}}

HCount(atomId, molecule) == Cardinality(HydrogensOf(atomId, molecule))

IsPrefix(s, t) == Len(s) <= Len(t) /\ SubSeq(t, 1, Len(s)) = s

Suffix(s, t) == SubSeq(t, Len(s) + 1, Len(t))

\* the atoms a call appended are hydrogens, the i-th joined to the parent by
\* the i-th appended bond, a single bond, and by no other bond
AppendedHydrogens(parentId, pre, post) ==
    /\ IsPrefix(pre.atoms, post.atoms)
    /\ IsPrefix(pre.bonds, post.bonds)
    /\ LET newAtoms == Suffix(pre.atoms, post.atoms)
           newBonds == Suffix(pre.bonds, post.bonds)
       IN  /\ Len(newAtoms) = Len(newBonds)
           /\ \A i \in 1..Len(newAtoms) :
                /\ newAtoms[i].element = "H"
                /\ newAtoms[i].id \notin {pre.atoms[j].id : j \in 1..Len(pre.atoms)}
                /\ newBonds[i].sourceAtomId = parentId
                /\ newBonds[i].targetAtomId = newAtoms[i].id
                /\ newBonds[i].type = "single"
                /\ \A j \in 1..Len(post.bonds) :
                      (post.bonds[j].sourceAtomId = newAtoms[i].id
                       \/ post.bonds[j].targetAtomId = newAtoms[i].id)
                      => j = Len(pre.bonds) + i

Grown(pre, post) == Len(post.atoms) - Len(pre.atoms)

PreAtom == FindAtom(last.pre.atoms, last.s)

PreSum(atomId) == getAtomBondCount(atomId, last.pre.bonds)

PreTarget == getBestValenceForBondCount(PreAtom.element, PreSum(last.s))

\* C1 as stated: after addHydrogensToAtom on an atom whose element has a
\* target valence, the atom's bond-order sum equals the target valence for
\* the sum before the call, by max(0, target - current) appended hydrogens.
C1_Original ==
    (last.op = "addHydrogensToAtom" /\ PreTarget # 0)
    => /\ getAtomBondCount(last.s, mol.bonds) = PreTarget
       /\ Grown(last.pre, mol) = Max(0, PreTarget - PreSum(last.s))
       /\ AppendedHydrogens(last.s, last.pre, mol)

\* C1 amended: the bond-order sum after the call is the target valence when
\* the sum before does not exceed it, and is unchanged otherwise; in both
\* cases exactly max(0, target - current) hydrogens are appended, each with
\* one new single bond to the atom.
C1_ValenceSatisfied ==
    (last.op = "addHydrogensToAtom" /\ PreTarget # 0)
    => /\ getAtomBondCount(last.s, mol.bonds) = Max(PreSum(last.s), PreTarget)
       /\ Grown(last.pre, mol) = Max(0, PreTarget - PreSum(last.s))
       /\ AppendedHydrogens(last.s, last.pre, mol)

\* a carbon with no bonds got 4 hydrogens and 4 single bonds
C1_Witness ==
    /\ last.op = "addHydrogensToAtom"
    /\ PreAtom.element = "C"
    /\ PreSum(last.s) = 0
    /\ Grown(last.pre, mol) = 4
    /\ Len(mol.bonds) = Len(last.pre.bonds) + 4
    /\ getAtomBondCount(last.s, mol.bonds) = 4

\* the bonds of a molecule that remain when every hydrogen of the atom is
\* stripped from it
StrippedBonds(atomId, molecule) ==
    SelectSeq(molecule.bonds, LAMBDA b :
        /\ b.sourceAtomId \notin HydrogensOf(atomId, molecule)
        /\ b.targetAtomId \notin HydrogensOf(atomId, molecule))

IsHeavyIn(atomId, molecule) ==
    HasAtom(molecule.atoms, atomId) /\ FindAtom(molecule.atoms, atomId).element # "H"

\* C2: after updateHydrogensAfterBondTypeChange(s, t, m) every non-hydrogen
\* endpoint present in m carries exactly requiredHydrogenCount hydrogens,
\* the count taken over its bonds with its previous hydrogens stripped.
C2_TypeChangeCounts ==
    last.op = "updateHydrogensAfterBondTypeChange"
    => \A x \in {last.s, last.t} :
          IsHeavyIn(x, last.pre)
          => HCount(x, mol) =
                getRequiredHydrogens(FindAtom(last.pre.atoms, x),
                                     StrippedBonds(x, last.pre))

\* a C-C bond that has become a double bond: each carbon had 3 hydrogens
\* and has 2 after the call
C2_Witness ==
    /\ last.op = "updateHydrogensAfterBondTypeChange"
    /\ last.s # last.t
    /\ \A x \in {last.s, last.t} :
          /\ IsHeavyIn(x, last.pre)
          /\ FindAtom(last.pre.atoms, x).element = "C"
          /\ HCount(x, last.pre) = 3
          /\ HCount(x, mol) = 2
    /\ \E b \in SeqRange(last.pre.bonds) :
          b.sourceAtomId = last.s /\ b.targetAtomId = last.t /\ b.type = "double"

\* C3 as stated: updateHydrogensAfterBondRemoval on a non-hydrogen atom
\* that has a target valence, and whose bond-order sum does not exceed it,
\* completes the valence: the atom's bond-order sum in the result is the
\* target valence, whatever number of hydrogens it already carried.
C3_RemovalCompletesValence ==
    (/\ last.op = "updateHydrogensAfterBondRemoval"
     /\ IsHeavyIn(last.s, last.pre)
     /\ PreTarget # 0
     /\ PreSum(last.s) <= PreTarget)
    => getAtomBondCount(last.s, mol.bonds) = PreTarget

\* the hydrogens the bond-formed reconciler should take from one endpoint:
\* the first min(max(0, current - target), attached) attached hydrogens, in
\* the order of the atom list
ExcessOf(atomId, molecule) ==
    LET current == getAtomBondCount(atomId, molecule.bonds)
        target == getBestValenceForBondCount(FindAtom(molecule.atoms, atomId).element, current)
    IN  IF ~HasAtom(molecule.atoms, atomId) \/ target = 0 THEN 0
        ELSE Min(Max(0, current - target), HCount(atomId, molecule))

IndexOf(atomId, molecule) ==
    CHOOSE i \in 1..Len(molecule.atoms) : molecule.atoms[i].id = atomId

FirstHydrogens(atomId, molecule, n) ==
    {h \in HydrogensOf(atomId, molecule) :
        Cardinality({g \in HydrogensOf(atomId, molecule) :
                        IndexOf(g, molecule) < IndexOf(h, molecule)}) < n}

Without(molecule, ids) ==
    Molecule(SelectSeq(molecule.atoms, LAMBDA a : a.id \notin ids),
             SelectSeq(molecule.bonds, LAMBDA b :
                 ~(b.sourceAtomId \in ids \/ b.targetAtomId \in ids)))

AfterBondFormed(atomId, molecule) ==
    Without(molecule, FirstHydrogens(atomId, molecule, ExcessOf(atomId, molecule)))

\* C4: on bond formed each endpoint, in turn (the source on the input, the
\* target on what the source's turn left), loses exactly
\* min(max(0, current - target), attached) hydrogens, the first ones in
\* resolver order, with their bonds; nothing is added.
C4_BondFormedRemoves ==
    /\ last.op = "updateHydrogensAfterBonding"
       => mol = AfterBondFormed(last.s, last.pre)
    /\ last.op = "updateMoleculeAfterBonding"
       => mol = AfterBondFormed(last.t, AfterBondFormed(last.s, last.pre))
    /\ last.op \in {"updateHydrogensAfterBonding", "updateMoleculeAfterBonding"}
       => /\ SeqRange(mol.atoms) \subseteq SeqRange(last.pre.atoms)
          /\ SeqRange(mol.bonds) \subseteq SeqRange(last.pre.bonds)

\* a carbon with 3 hydrogens and two bonds to another carbon (the second
\* one just formed, bond-order sum 5) is left with exactly 2 hydrogens, the
\* first of the three being the one removed
C4_Witness ==
    /\ last.op = "updateMoleculeAfterBonding"
    /\ IsHeavyIn(last.s, last.pre) /\ IsHeavyIn(last.t, last.pre) /\ last.s # last.t
    /\ PreAtom.element = "C"
    /\ FindAtom(last.pre.atoms, last.t).element = "C"
    /\ PreSum(last.s) = 5
    /\ HCount(last.s, last.pre) = 3
    /\ HCount(last.s, mol) = 2
    /\ FirstHydrogens(last.s, last.pre, 1) \cap HydrogensOf(last.s, mol) = {}

AtomIds(molecule) == {molecule.atoms[i].id : i \in 1..Len(molecule.atoms)}

HeavyIds(molecule) ==
    {a.id : a \in {h \in SeqRange(molecule.atoms) : h.element # "H"}}

\* C6: a second updateHydrogensAfterBondTypeChange with the same two ids,
\* applied to what the first returned, leaves every non-hydrogen atom with
\* the number of hydrogens it had after the first.
C6_TypeChangeIdempotent ==
    (last.op = "updateHydrogensAfterBondTypeChange" /\ last.rep)
    => /\ HeavyIds(mol) = HeavyIds(last.pre)
       /\ \A x \in HeavyIds(mol) : HCount(x, mol) = HCount(x, last.pre)

\* the second application stripped the first one's hydrogens and put new
\* ones (other ids) in their place
C6_Witness ==
    /\ last.op = "updateHydrogensAfterBondTypeChange" /\ last.rep
    /\ IsHeavyIn(last.s, last.pre)
    /\ HCount(last.s, last.pre) > 0
    /\ HydrogensOf(last.s, mol) \cap HydrogensOf(last.s, last.pre) = {}
    /\ HCount(last.s, mol) = HCount(last.s, last.pre)

MaxCanonicalValence(element) ==
    IF ValenceTable(element) = << >> THEN 0 ELSE MaxOf(SeqRange(ValenceTable(element)))

Fits(atomId, molecule, bondOrder) ==
    /\ atomId \in AtomIds(molecule)
    /\ getAtomBondCount(atomId, molecule.bonds) + bondOrder
          <= MaxCanonicalValence(FindAtom(molecule.atoms, atomId).element)

\* C7: canBondAtoms(s, t, m, k) is true exactly when both atoms exist and
\* each one's bond-order sum (hydrogen bonds included) plus k does not
\* exceed its element's largest canonical valence; the molecule is as before.
C7_CanBondAtoms ==
    last.op = "canBondAtoms"
    => /\ last.res = (Fits(last.s, last.pre, last.k) /\ Fits(last.t, last.pre, last.k))
       /\ mol = last.pre

\* two carbons, each at bond-order sum 4: the answer is false
C7_Witness ==
    /\ last.op = "canBondAtoms"
    /\ last.s # last.t
    /\ \A x \in {last.s, last.t} :
          /\ IsHeavyIn(x, last.pre)
          /\ FindAtom(last.pre.atoms, x).element = "C"
          /\ PreSum(x) = 4
    /\ last.res = FALSE

Unknown(atomId) == atomId \notin AtomIds(last.pre)

\* C8 as stated: a mutation call with an unknown atom id, for the two-id
\* calls with at least one of the two unknown, returns its input.
C8_Original ==
    /\ (last.op \in {"updateHydrogensAfterBonding", "updateHydrogensAfterBondRemoval"}
        /\ Unknown(last.s)) => mol = last.pre
    /\ (last.op \in {"updateMoleculeAfterBonding", "updateHydrogensAfterBondTypeChange"}
        /\ (Unknown(last.s) \/ Unknown(last.t))) => mol = last.pre

\* C8 amended: the single-id calls return their input when the id is
\* unknown, the two-id calls when both ids are unknown.
C8_UnknownIdUnchanged ==
    /\ (last.op \in {"updateHydrogensAfterBonding", "updateHydrogensAfterBondRemoval"}
        /\ Unknown(last.s)) => mol = last.pre
    /\ (last.op \in {"updateMoleculeAfterBonding", "updateHydrogensAfterBondTypeChange"}
        /\ Unknown(last.s) /\ Unknown(last.t)) => mol = last.pre

\* a two-id call with both ids unknown on a molecule in which a known atom
\* has excess hydrogens to lose
C8_Witness ==
    /\ last.op = "updateMoleculeAfterBonding"
    /\ Unknown(last.s) /\ Unknown(last.t)
    /\ \E x \in AtomIds(last.pre) : ExcessOf(x, last.pre) > 0
    /\ mol = last.pre

\* the bond orders of the bonds touching the atom, a bond counted once for
\* each of its two ends that is the atom
DegreeSum(atomId, bonds) ==
    SumSeq([i \in 1..Len(bonds) |->
        BOND_ORDER(bonds[i].type)
          * ((IF bonds[i].sourceAtomId = atomId THEN 1 ELSE 0)
             + (IF bonds[i].targetAtomId = atomId THEN 1 ELSE 0))])

\* C9: getAtomBondCount is the sum of the orders of the bonds touching the
\* atom (0 when none does), a bond from the atom to itself counted twice.
C9_BondOrderSum ==
    last.op = "getAtomBondCount" => last.res = DegreeSum(last.s, last.pre.bonds)

\* C10: addSpecificHydrogens, addHydrogensToAtom and
\* updateHydrogensAfterBondRemoval only append: the input's atom and bond
\* lists are prefixes of the result's, the appended atoms are hydrogens,
\* each with exactly one appended single bond to the parent, an explicit
\* count n > 0 appends n of them, and a count <= 0 returns the input.
C10_AppendOnly ==
    /\ last.op \in {"addSpecificHydrogens", "addHydrogensToAtom",
                    "updateHydrogensAfterBondRemoval"}
       => AppendedHydrogens(last.s, last.pre, mol)
    /\ last.op = "addSpecificHydrogens"
       => /\ Grown(last.pre, mol) = Max(0, last.k)
          /\ (last.k <= 0 => mol = last.pre)

\* an explicit count of 2 appended 2 hydrogens and 2 bonds to a molecule
\* that already had bonds
C10_Witness ==
    /\ last.op = "addSpecificHydrogens"
    /\ last.k = 2
    /\ last.pre.bonds # << >>
    /\ Grown(last.pre, mol) = 2
    /\ Len(mol.bonds) = Len(last.pre.bonds) + 2

\* C11: getRequiredHydrogens returns max(0, target - current), current
\* being the atom's bond-order sum and target the best valence for it, and
\* 0 when the element has no target valence; it is never negative.
C11_RequiredNonNegative ==
    last.op = "getRequiredHydrogens"
    => /\ last.res >= 0
       /\ ValenceTable(PreAtom.element) = << >> => last.res = 0
       /\ ValenceTable(PreAtom.element) # << >>
          => last.res = Max(0, PreTarget - PreSum(last.s))

\* a carbon at bond-order sum 5 (target 4): the difference is negative and
\* the answer is 0
C11_Witness ==
    /\ last.op = "getRequiredHydrogens"
    /\ PreAtom.element = "C"
    /\ PreSum(last.s) = 5
    /\ PreTarget = 4
    /\ last.res = 0

\* the angle (degrees) at which a synthesised hydrogen sits around its parent
AngleOf(hydrogen) == hydrogen.position.offs[Len(hydrogen.position.offs)]

NewAtoms == Suffix(last.pre.atoms, mol.atoms)

\* C12: the i-th hydrogen (i = 0..n-1) of a simple-mode placement of n > 0
\* hydrogens sits one step of length 30 from the parent at angle
\* i * 360 / max(n, 3) degrees; the angles of one call are pairwise
\* distinct, and for n = 3 they are 0, 120 and 240.
C12_SimplePlacement ==
    (last.op \in {"addSpecificHydrogens", "addHydrogensToAtom"} /\ Grown(last.pre, mol) > 0)
    => LET n == Grown(last.pre, mol)
       IN  /\ \A i \in 1..n :
                NewAtoms[i].position
                  = OffsetPosition(PreAtom.position, (i - 1) * (360 \div Max(n, 3)))
           /\ \A i, j \in 1..n : i # j => AngleOf(NewAtoms[i]) # AngleOf(NewAtoms[j])
           /\ n = 3 => [i \in 1..n |-> AngleOf(NewAtoms[i])] = <<0, 120, 240>>

\* three hydrogens were placed at 0, 120 and 240 degrees, and in another
\* call two would sit at 0 and 120
C12_Witness ==
    /\ last.op = "addHydrogensToAtom"
    /\ Grown(last.pre, mol) = 3
    /\ [i \in 1..3 |-> AngleOf(NewAtoms[i])] = <<0, 120, 240>>
    /\ \A i \in 1..3 : NewAtoms[i].position.x = PreAtom.position.x
                       /\ NewAtoms[i].position.y = PreAtom.position.y

\* the molecule before its newest bond (the last of the bond list) was formed
FormedBond(molecule) == molecule.bonds[Len(molecule.bonds)]

BeforeBond(molecule) ==
    Molecule(molecule.atoms, SubSeq(molecule.bonds, 1, Len(molecule.bonds) - 1))

\* the bond-formed path was called for the two ends of the newest bond
OnFormedBond ==
    /\ last.op = "updateMoleculeAfterBonding"
    /\ last.s # last.t
    /\ last.pre.bonds # << >>
    /\ {FormedBond(last.pre).sourceAtomId, FormedBond(last.pre).targetAtomId}
          = {last.s, last.t}

\* C13: forming a bond never increases an endpoint's hydrogen requirement:
\* the requirement at the bond-order sum with the new bond is at most the
\* requirement at the sum without it, and after the bond-formed path no
\* endpoint needs more hydrogens than it needed before the bond.
C13_BondNeverIncreasesRequirement ==
    OnFormedBond
    => \A x \in {last.s, last.t} :
          /\ getRequiredHydrogens(FindAtom(last.pre.atoms, x), last.pre.bonds)
                <= getRequiredHydrogens(FindAtom(last.pre.atoms, x), BeforeBond(last.pre).bonds)
          /\ getRequiredHydrogens(FindAtom(mol.atoms, x), mol.bonds)
                <= getRequiredHydrogens(FindAtom(last.pre.atoms, x), BeforeBond(last.pre).bonds)

\* ------------------------------------------------------------ farthest angle
CircularDistance(a, b) == Min((a - b) % 360, 360 - ((a - b) % 360))

Candidates == {30 * k : k \in 0..11}

\* the least circular distance from the candidate to an obstacle, the full
\* circle when there is none
Clearance(candidate, obstacles) ==
    MinOf({360} \cup {CircularDistance(candidate, o) : o \in obstacles})

\* the first candidate, in increasing order, of greatest clearance
Farthest(obstacles) ==
    CHOOSE c \in Candidates :
        /\ \A d \in Candidates : Clearance(d, obstacles) <= Clearance(c, obstacles)
        /\ \A d \in Candidates : d < c => Clearance(d, obstacles) < Clearance(c, obstacles)

\* the obstacles around an atom: its hydrogens and its bonded non-hydrogen
\* neighbours, each at the angle atan2 reports
ObstaclesOf(atomId, molecule) ==
    LET atom == FindAtom(molecule.atoms, atomId)
        neighbours == {a \in SeqRange(molecule.atoms) :
            \E b \in SeqRange(molecule.bonds) :
                \/ (b.sourceAtomId = atomId /\ b.targetAtomId = a.id)
                \/ (b.targetAtomId = atomId /\ b.sourceAtomId = a.id)}
    IN  {Atan2Deg(atom.position, a.position) : a \in neighbours}

\* C14: every hydrogen updateHydrogensAfterBondRemoval places sits at the
\* candidate angle (a multiple of 30 degrees) of greatest least circular
\* distance to the obstacles (the atom's hydrogens, its bonded non-hydrogen
\* neighbours, the hydrogens placed earlier in the call), the first such
\* candidate in increasing order.
C14_FarthestPlacement ==
    last.op = "updateHydrogensAfterBondRemoval"
    => \A i \in 1..Grown(last.pre, mol) :
          AngleOf(NewAtoms[i])
            = Farthest(ObstaclesOf(last.s, last.pre)
                       \cup {AngleOf(NewAtoms[j]) : j \in 1..(i - 1)})

\* C15: the hydrogens placed by one call of updateHydrogensAfterBondRemoval
\* sit at pairwise different angles.
C15_DistinctAngles ==
    last.op = "updateHydrogensAfterBondRemoval"
    => \A i, j \in 1..Grown(last.pre, mol) :
          i # j => AngleOf(NewAtoms[i]) # AngleOf(NewAtoms[j])

\* a call placed three hydrogens around an atom that has a bonded neighbour
C15_Witness ==
    /\ last.op = "updateHydrogensAfterBondRemoval"
    /\ Grown(last.pre, mol) = 3
    /\ ObstaclesOf(last.s, last.pre) # {}
    /\ Cardinality({AngleOf(NewAtoms[i]) : i \in 1..3}) = 3

\* the non-hydrogen atoms, and the bonds that touch no hydrogen, in order
HeavyAtoms(molecule) == SelectSeq(molecule.atoms, LAMBDA a : a.element # "H")

HeavyBonds(molecule) ==
    SelectSeq(molecule.bonds, LAMBDA b :
        \A a \in SeqRange(molecule.atoms) :
            a.element = "H" => (b.sourceAtomId # a.id /\ b.targetAtomId # a.id))

\* C16: every reconciler operation leaves the sequence of non-hydrogen
\* atoms and the sequence of bonds joining two non-hydrogen atoms as they
\* were in its input.
C16_HeavyFrame ==
    last.op \in {"addHydrogensToAtom", "addSpecificHydrogens", "updateHydrogensAfterBonding",
                 "updateMoleculeAfterBonding", "updateHydrogensAfterBondRemoval",
                 "updateHydrogensAfterBondTypeChange"}
    => /\ HeavyAtoms(mol) = HeavyAtoms(last.pre)
       /\ HeavyBonds(mol) = HeavyBonds(last.pre)

\* a type change on two bonded non-hydrogen atoms stripped hydrogens and
\* attached new ones, the two atoms and their bond staying
C16_Witness ==
    /\ last.op = "updateHydrogensAfterBondTypeChange"
    /\ last.s # last.t
    /\ IsHeavyIn(last.s, last.pre) /\ IsHeavyIn(last.t, last.pre)
    /\ HeavyBonds(last.pre) # << >>
    /\ HydrogensOf(last.s, last.pre) # {}
    /\ HydrogensOf(last.s, last.pre) \cap AtomIds(mol) = {}
    /\ HydrogensOf(last.s, mol) # {}
    /\ HeavyBonds(mol) = HeavyBonds(last.pre)

\* canBondAtoms allowed the newest bond before it was formed
GateAllowed ==
    /\ OnFormedBond
    /\ canBondAtoms(last.s, last.t, BeforeBond(last.pre),
                    BOND_ORDER(FormedBond(last.pre).type))

\* C17: when canBondAtoms(s, t, m, k) is true and a bond of order k between
\* s and t is added to m, updateMoleculeAfterBonding(s, t, .) returns its
\* input: neither endpoint's bond-order sum exceeds its target valence and
\* no hydrogen is removed.
C17_GateMeansNoRemoval ==
    GateAllowed
    => /\ mol = last.pre
       /\ \A x \in {last.s, last.t} :
             PreSum(x) <= getBestValenceForBondCount(FindAtom(last.pre.atoms, x).element,
                                                     PreSum(x))

\* two atoms that carry hydrogens were bonded with the gate's consent and
\* kept them
C17_Witness ==
    /\ GateAllowed
    /\ HydrogensOf(last.s, last.pre) # {}
    /\ HydrogensOf(last.t, last.pre) # {}
    /\ mol = last.pre

\* ------------------------------------------------------------ NamingCache
\* The naming client: a cache of names by SMILES string and the queue of
\* the requests in progress.  A Map is the sequence of its entries in
\* insertion order, each entry carrying its key (smiles).  A request is
\* [id, smiles, startTime, aborted]: id stands for its AbortController,
\* aborted for controller.signal.aborted; a request leaves the set when its
\* promise settles and its .then or .catch handler has run.
Smiles == {"C", "CC", "CCO"}

Names == {"name"}

null == "null"

MapHas(map, key) == \E i \in 1..Len(map) : map[i].smiles = key

MapGet(map, key) == map[CHOOSE i \in 1..Len(map) : map[i].smiles = key]

MapDelete(map, key) == SelectSeq(map, LAMBDA e : e.smiles # key)

\* Map.prototype.set: an existing key keeps its place
MapSet(map, entry) ==
    IF MapHas(map, entry.smiles)
    THEN [i \in 1..Len(map) |-> IF map[i].smiles = entry.smiles THEN entry ELSE map[i]]
    ELSE Append(map, entry)

\* getCached: the value returned and the cache it leaves
getCached(entries, smiles, time) ==
    IF ~MapHas(entries, smiles) THEN [value |-> null, cache |-> entries]
    ELSE IF time - MapGet(entries, smiles).timestamp > CACHE_DURATION
         THEN [value |-> null, cache |-> MapDelete(entries, smiles)]
         ELSE [value |-> MapGet(entries, smiles).name, cache |-> entries]

\* entries.sort by timestamp (a stable sort) [0][0]
OldestKey(entries) ==
    entries[CHOOSE i \in 1..Len(entries) :
        /\ \A j \in 1..Len(entries) : entries[i].timestamp <= entries[j].timestamp
        /\ \A j \in 1..(i - 1) : entries[j].timestamp > entries[i].timestamp].smiles

CacheEntry(smiles, name, requestTime, time) ==
    [smiles |-> smiles, name |-> name, timestamp |-> time, requestTime |-> requestTime]

\* a slip: a full cache is not cleared of its oldest entry
setCached_NoEvict(entries, smiles, name, requestTime, time) ==
    MapSet(entries, CacheEntry(smiles, name, requestTime, time))

setCached(entries, smiles, name, requestTime, time) ==
    MapSet(IF Len(entries) >= MAX_CACHE_SIZE
           THEN MapDelete(entries, OldestKey(entries)) ELSE entries,
           CacheEntry(smiles, name, requestTime, time))

\* controller.abort()
Abort(pending, ids) ==
    {IF r.id \in ids THEN [r EXCEPT !.aborted = TRUE] ELSE r : r \in pending}

FreshRequestId == CHOOSE i \in 1..MaxRequests : \A r \in requests : r.id # i

\* a store recorded in last: pre is the cache the store found
Store(op, smiles) ==
    [op |-> op, s |-> smiles, t |-> 0, k |-> 0, pre |-> cache, res |-> FALSE, rep |-> FALSE]

GetCached(smiles) ==
    /\ cache' = getCached(cache, smiles, now).cache
    /\ last' = NoCall
    /\ UNCHANGED <<requestQueue, requests, now>>
    /\ UNCHANGED editorVars

SetCached(smiles, name, requestTime) ==
    /\ cache' = setCached(cache, smiles, name, requestTime, now)
    /\ last' = Store("setCached", smiles)
    /\ UNCHANGED <<requestQueue, requests, now>>
    /\ UNCHANGED editorVars

\* requestName up to the return of its promise: the cached name, or a new
\* request in place of the queued one for the same SMILES
RequestName(smiles) ==
    LET cached == getCached(cache, smiles, now)
        existing == IF MapHas(requestQueue, smiles)
                    THEN {MapGet(requestQueue, smiles).controller} ELSE {}
        queuedRequest == [smiles |-> smiles, timestamp |-> now, controller |-> FreshRequestId]
    IN  /\ cache' = cached.cache
        /\ IF cached.value # null
           THEN UNCHANGED <<requestQueue, requests>>
           ELSE /\ Cardinality(requests) < MaxRequests
                /\ requestQueue' = MapSet(MapDelete(requestQueue, smiles), queuedRequest)
                /\ requests' = Abort(requests, existing)
                      \cup {[id |-> FreshRequestId, smiles |-> smiles,
                             startTime |-> now, aborted |-> FALSE]}
        /\ last' = NoCall
        /\ UNCHANGED now
        /\ UNCHANGED editorVars

\* the .then handler: the request succeeded
RequestSucceeded(r) ==
    /\ ~r.aborted
    /\ requestQueue' = MapDelete(requestQueue, r.smiles)
    /\ cache' = setCached(cache, r.smiles, "name", now - r.startTime, now)
    /\ requests' = requests \ {r}
    /\ last' = Store("resolve", r.smiles)
    /\ UNCHANGED now
    /\ UNCHANGED editorVars

\* the .catch handler: the request was aborted (AbortError) or failed
RequestFailed(r) ==
    /\ requestQueue' = MapDelete(requestQueue, r.smiles)
    /\ requests' = requests \ {r}
    /\ last' = NoCall
    /\ UNCHANGED <<cache, now>>
    /\ UNCHANGED editorVars

\* the timer set by requestName, not cleared yet, fires
RequestTimeout(r) ==
    /\ ~r.aborted
    /\ now - r.startTime >= REQUEST_TIMEOUT
    /\ requests' = Abort(requests, {r.id})
    /\ last' = NoCall
    /\ UNCHANGED <<cache, requestQueue, now>>
    /\ UNCHANGED editorVars

CancelAllRequests ==
    /\ requests' = Abort(requests, {requestQueue[i].controller : i \in 1..Len(requestQueue)})
    /\ requestQueue' = << >>
    /\ last' = NoCall
    /\ UNCHANGED <<cache, now>>
    /\ UNCHANGED editorVars

\* time passes
Tick ==
    /\ now < MaxTime
    /\ now' = now + 1
    /\ last' = NoCall
    /\ UNCHANGED <<cache, requestQueue, requests>>
    /\ UNCHANGED editorVars

NextNaming ==
    \/ \E smiles \in Smiles : GetCached(smiles)
    \/ \E smiles \in Smiles, name \in Names : SetCached(smiles, name, 0)
    \/ \E smiles \in Smiles : RequestName(smiles)
    \/ \E r \in requests : RequestSucceeded(r)
    \/ \E r \in requests : RequestFailed(r)
    \/ \E r \in requests : RequestTimeout(r)
    \/ CancelAllRequests
    \/ Tick

SpecNaming == Init /\ [][NextNaming]_vars

\* the requests in flight: pending and not aborted
InFlight == {r \in requests : ~r.aborted}

\* C18: for every SMILES string at most one non-aborted request is in
\* flight, and every non-aborted request in flight has its entry in
\* requestQueue, under every interleaving of requestName calls,
\* completions, rejections and timeouts.
C18_SingleFlight ==
    /\ \A q, r \in InFlight : q.smiles = r.smiles => q = r
    /\ \A r \in InFlight :
          /\ MapHas(requestQueue, r.smiles)
          /\ MapGet(requestQueue, r.smiles).controller = r.id

Keys(map) == {map[i].smiles : i \in 1..Len(map)}

\* C19: the cache never holds more than MAX_CACHE_SIZE entries; a store
\* (setCached, or the completion of a request) into a full cache first
\* evicts an entry of oldest timestamp and then holds the new entry.
C19_CacheBounded ==
    /\ Len(cache) <= MAX_CACHE_SIZE
    /\ (last.op \in {"setCached", "resolve"} /\ Len(last.pre) >= MAX_CACHE_SIZE)
       => \E i \in 1..Len(last.pre) :
             /\ \A j \in 1..Len(last.pre) : last.pre[i].timestamp <= last.pre[j].timestamp
             /\ Keys(cache) = (Keys(last.pre) \ {last.pre[i].smiles}) \cup {last.s}

\* a completed request stored a new key in a full cache: the older of the
\* two entries went, the newer stayed
C19_Witness ==
    /\ last.op = "resolve"
    /\ Len(last.pre) = MAX_CACHE_SIZE
    /\ last.s \notin Keys(last.pre)
    /\ last.pre[1].timestamp < last.pre[2].timestamp
    /\ Keys(cache) = {last.pre[2].smiles, last.s}
    /\ Len(cache) = MAX_CACHE_SIZE

====
